---- MODULE Spec2Model ----
(***************************************************************************)
(* Lap-time analyzers of f1_analyzer: BaseAnalyzer, TimeBasedAnalyzer,    *)
(* DriverTimeBasedAnalyzer, TeamAnalyzer and DriverAnalyzer.               *)
(*                                                                         *)
(* Conventions of the model                                                *)
(*   - an identifier (str) is a sequence of one-character strings;         *)
(*   - a float is <<num, den>> (the rational num/den) and NaN is <<>>;     *)
(*   - a LapTime cell is <<seconds>> and NaT is <<>>;                      *)
(*   - a DataFrame is a sequence of rows, each row a record that carries   *)
(*     its index label idx (the row label of the provider's lap table);    *)
(*   - None for `other_driver` is <<>> and None for `stint` is 0: the code *)
(*     tests both by truthiness, so "" and 0 behave as None does.          *)
(* Arithmetic is exact: |v - m| <= 1.5 * s is decided on integers.         *)
(* The Session Provider (fastf1) is an external collaborator: it returns   *)
(* the same lap table on every fetch and a fetch succeeds.                 *)
(***************************************************************************)
EXTENDS Integers, Sequences, FiniteSets, TLC

VARIABLES cls, identifier, constructed, sessionLaps, session, laps,
          fetchCount, loadCalls, ret

vars == <<cls, identifier, constructed, sessionLaps, session, laps,
          fetchCount, loadCalls, ret>>

\* ------------------------------------------------------------------ bounds
MaxLaps == 2
MaxLen == 4
MaxFetch == 2

\* ------------------------------------------------------------- input sets
VER == <<"V", "E", "R">>
HAM == <<"H", "A", "M">>
RBR == <<"R", "B", "R">>
MER == <<"M", "E", "R">>
V1 == <<"V", "1">>
R2D == <<"R", "2", "D">>

Letters == {"V", "E", "R", "H", "A", "M", "B"}

Durations == {50, 88, 90, 120}
OwnDurations == {88}
OtherDurations == {90}

ExampleDurations == <<90, 85, 88, 95, 120, 87>>

Year == 2024
Round == 1

\* ------------------------------------------------------------ float values
NaN == <<>>
NaT == <<>>
Float(n) == <<n, 1>>

Sub(x, y) ==
    IF x = NaN \/ y = NaN THEN NaN
    ELSE <<x[1] * y[2] - y[1] * x[2], x[2] * y[2]>>

\* Timedelta.total_seconds() of a LapTime cell; NaT gives NaN
total_seconds(cell) == IF cell = NaT THEN NaN ELSE Float(cell[1])

\* --------------------------------------------------------- list arithmetic
RECURSIVE Sum(_)
Sum(s) == IF s = <<>> THEN 0 ELSE Head(s) + Sum(Tail(s))

RECURSIVE SumSq(_)
SumSq(s) == IF s = <<>> THEN 0 ELSE Head(s) * Head(s) + SumSq(Tail(s))

Sorted(s) == SortSeq(s, LAMBDA a, b : a < b)

Abs(x) == IF x < 0 THEN -x ELSE x

\* np.median: twice the median of a non-empty list (the mean of the two middle
\* values of an even-sized list is a half-integer)
Median2(s) ==
    LET a == Sorted(s)
        n == Len(s)
    IN  IF n % 2 = 1 THEN 2 * a[(n + 1) \div 2]
        ELSE a[n \div 2] + a[n \div 2 + 1]

\* np.median as a float; NaN for the empty list
np_median(s) == IF s = <<>> THEN NaN ELSE <<Median2(s), 2>>

\* n^2 times the population variance (np.std squared, ddof = 0)
StdSqN2(s) == Len(s) * SumSq(s) - Sum(s) * Sum(s)

\* threshold = 1.5, as the fraction ThresholdNum / ThresholdDen
ThresholdNum == 3
ThresholdDen == 2

\* abs(time - median_lap_time) <= threshold * np.std(lap_times), squared and
\* cleared of denominators
KeepWrong(time, lap_times) ==
    LET n == Len(lap_times)
        d == n * time - Sum(lap_times)
    IN  ThresholdDen * ThresholdDen * d * d
          <= ThresholdNum * ThresholdNum * StdSqN2(lap_times)

Keep(time, lap_times) ==
    LET n == Len(lap_times)
        d == 2 * time - Median2(lap_times)
    IN  ThresholdDen * ThresholdDen * n * n * d * d
          <= 4 * ThresholdNum * ThresholdNum * StdSqN2(lap_times)

RECURSIVE FilterFrom(_, _)
FilterFrom(rest, lap_times) ==
    IF rest = <<>> THEN <<>>
    ELSE IF Keep(Head(rest), lap_times)
         THEN <<Head(rest)>> \o FilterFrom(Tail(rest), lap_times)
         ELSE FilterFrom(Tail(rest), lap_times)

filter_lap_outliers(lap_times) == FilterFrom(lap_times, lap_times)

\* ------------------------------------------------------------- lap tables
Columns == {"Driver", "Team", "LapNumber", "Stint", "LapTime"}

TeamOf(d) == IF d = VER THEN RBR ELSE MER

Cells(D) == {NaT} \cup {<<v>> : v \in D}

SeqsUpTo(S, n) == UNION {[1..k -> S] : k \in 0..n}

PitChoices(n) == IF n = 0 THEN {0} ELSE 1..n

\* the laps of one driver in the provider's table: lap numbers 1..n, stint 1
\* up to the pit lap and stint 2 after it, row labels from base upwards
DriverLaps(d, times, pit, base) ==
    [i \in 1..Len(times) |->
        [idx |-> base + i - 1, Driver |-> d, Team |-> TeamOf(d),
         LapNumber |-> i, Stint |-> IF i <= pit THEN 1 ELSE 2,
         LapTime |-> times[i]]]

pick_drivers(table, id) == SelectSeq(table, LAMBDA r : r.Driver = id)

pick_teams(table, id) == SelectSeq(table, LAMBDA r : r.Team = id)

pick_stint(table, stint) == SelectSeq(table, LAMBDA r : r.Stint = stint)

validate_driver_code(code) ==
    Len(code) = 3 /\ \A i \in 1..Len(code) : code[i] \in Letters

\* --------------------------------------------------------------- metrics
get_lap_times_dropna(rows) ==
    LET kept == SelectSeq(rows, LAMBDA r : r.LapTime # NaT)
    IN  [i \in 1..Len(kept) |-> kept[i].LapTime[1]]

MeanOf(clean_lap_times) ==
    IF clean_lap_times # <<>>
    THEN <<Sum(clean_lap_times), Len(clean_lap_times)>>
    ELSE NaN

AverageOf(clean_lap_times) ==
    IF clean_lap_times # <<>> THEN np_median(clean_lap_times) ELSE NaN

get_average_lap_time(rows) ==
    AverageOf(filter_lap_outliers(get_lap_times_dropna(rows)))

\* pd.Series.var(): the sample variance (ddof = 1), NaN below two values
series_var(s) ==
    LET n == Len(s)
    IN  IF n < 2 THEN NaN ELSE <<n * SumSq(s) - Sum(s) * Sum(s), n * (n - 1)>>

calculate_lap_time_variance(rows) ==
    series_var(filter_lap_outliers(get_lap_times_dropna(rows)))

\* np.percentile of a non-empty list, linear interpolation, in hundredths
np_percentile(s, p) ==
    LET a == Sorted(s)
        pos == p * (Len(s) - 1)
        lo == pos \div 100
        r == pos % 100
    IN  IF r = 0 THEN <<100 * a[lo + 1], 100>>
        ELSE <<100 * a[lo + 1] + r * (a[lo + 2] - a[lo + 1]), 100>>

Range(s) == {s[i] : i \in 1..Len(s)}

calculate_lap_times_percentile(rows, percentile) ==
    LET f == filter_lap_outliers(get_lap_times_dropna(rows))
    IN  [p \in Range(percentile) |-> np_percentile(f, p)]

MinOf(S) == CHOOSE m \in S : \A x \in S : m <= x

FilteredFastest(rows) ==
    LET f == filter_lap_outliers(get_lap_times_dropna(rows))
    IN  IF f = <<>> THEN NaN ELSE Float(MinOf(Range(f)))

FastestZero(rows) ==
    LET t == get_lap_times_dropna(rows)
    IN  IF t = <<>> THEN Float(0) ELSE Float(MinOf(Range(t)))

\* self.laps['LapTime'].min().total_seconds(): min skips NaT, and the min of
\* no value is NaT, whose total_seconds() is NaN
fastest_lap(rows) ==
    LET t == get_lap_times_dropna(rows)
    IN  IF t = <<>> THEN NaN ELSE Float(MinOf(Range(t)))

AnalyzeResult(id, rows) ==
    [identifier |-> id, year |-> Year, round |-> Round,
     average_lap_time |-> get_average_lap_time(rows),
     fastest_lap |-> fastest_lap(rows),
     lap_time_variance |-> calculate_lap_time_variance(rows)]

BasicAnalyzeResult(id, rows) ==
    [driver |-> id, year |-> Year, round |-> Round, laps_count |-> Len(rows)]

\* ------------------------------------------------------------ comparison
RECURSIVE SortedLabels(_)
SortedLabels(S) ==
    IF S = {} THEN <<>>
    ELSE LET m == CHOOSE x \in S : \A y \in S : x <= y
         IN  <<m>> \o SortedLabels(S \ {m})

HasIdx(rows, i) == \E k \in 1..Len(rows) : rows[k].idx = i

RowAt(rows, i) == rows[CHOOSE k \in 1..Len(rows) : rows[k].idx = i]

\* pd.DataFrame({...}) of three Series: the Series are aligned on the union of
\* their index labels, in label order; a label a Series lacks gives NaN
comparison_frame(mine, theirs) ==
    LET labels == {mine[k].idx : k \in 1..Len(mine)}
                    \cup {theirs[k].idx : k \in 1..Len(theirs)}
        index == SortedLabels(labels)
        d1(i) == IF HasIdx(mine, i)
                 THEN total_seconds(RowAt(mine, i).LapTime) ELSE NaN
        d2(i) == IF HasIdx(theirs, i)
                 THEN total_seconds(RowAt(theirs, i).LapTime) ELSE NaN
    IN  [k \in 1..Len(index) |->
            [idx |-> index[k],
             LapNumber |-> IF HasIdx(mine, index[k])
                           THEN Float(RowAt(mine, index[k]).LapNumber)
                           ELSE NaN,
             Driver1_LapTime |-> d1(index[k]),
             Driver2_LapTime |-> d2(index[k]),
             LapTimeDifference |-> Sub(d1(index[k]), d2(index[k]))]]

KeepAllStints(rows, stint) == rows

\* self.laps[self.laps['Stint'] == stint] when stint is truthy
restrict_stint(rows, stint) ==
    IF stint # 0 THEN pick_stint(rows, stint) ELSE rows

\* ----------------------------------------------------------- progression
ProgressionColumns == {"LapNumber", "LapTimes"}
ProgressionTimeColumn == "LapTimes"

RECURSIVE InsertByLapNumber(_, _)
InsertByLapNumber(r, sorted) ==
    IF sorted = <<>> THEN <<r>>
    ELSE IF r.LapNumber < Head(sorted).LapNumber
         THEN <<r>> \o sorted
         ELSE <<Head(sorted)>> \o InsertByLapNumber(r, Tail(sorted))

RECURSIVE sort_by_LapNumber(_)
sort_by_LapNumber(rows) ==
    IF rows = <<>> THEN <<>>
    ELSE InsertByLapNumber(rows[Len(rows)],
                           sort_by_LapNumber(SubSeq(rows, 1, Len(rows) - 1)))

\* dropna, total_seconds, sort_values(by='LapNumber'), diff()
progression_frame(rows) ==
    LET kept == SelectSeq(rows, LAMBDA r : r[ProgressionTimeColumn] # NaT)
        srt == sort_by_LapNumber(kept)
        secs(k) == total_seconds(srt[k][ProgressionTimeColumn])
    IN  [k \in 1..Len(srt) |->
            [LapNumber |-> srt[k].LapNumber,
             LapTimeSeconds |-> secs(k),
             TimeChange |-> IF k = 1 THEN NaN ELSE Sub(secs(k), secs(k - 1))]]

\* ------------------------------------------------------------------ state
TimeBased == {"DriverTimeBasedAnalyzer", "TeamAnalyzer"}

NoLaps == [isNone |-> TRUE, rows |-> <<>>]
Frame(rows) == [isNone |-> FALSE, rows |-> rows]

Returned(op, args, value) ==
    [op |-> op, args |-> args, raised |-> "None", value |-> value]
Raised(op, args, error) ==
    [op |-> op, args |-> args, raised |-> error, value |-> <<>>]

Configs ==
    {<<"DriverAnalyzer", VER>>, <<"DriverAnalyzer", R2D>>,
     <<"DriverTimeBasedAnalyzer", VER>>, <<"DriverTimeBasedAnalyzer", V1>>,
     <<"TeamAnalyzer", RBR>>, <<"TeamAnalyzer", R2D>>}

\* DriverAnalyzer.__init__ raises ValueError on an invalid code; BaseAnalyzer's
\* __init__ stores the identifier as given
construct_ok(c, id) ==
    c = "DriverAnalyzer" => validate_driver_code(id)

Init ==
    \E cfg \in Configs :
    \E tv \in SeqsUpTo(Cells(OwnDurations), MaxLaps),
       th \in SeqsUpTo(Cells(OtherDurations), MaxLaps) :
    \E pv \in PitChoices(Len(tv)), ph \in {1} :
        /\ cls = cfg[1]
        /\ identifier = cfg[2]
        /\ constructed = construct_ok(cfg[1], cfg[2])
        /\ sessionLaps = DriverLaps(VER, tv, pv, 0)
                           \o DriverLaps(HAM, th, ph, Len(tv))
        /\ session = "None"
        /\ laps = NoLaps
        /\ fetchCount = 0
        /\ loadCalls = 0
        /\ ret = IF construct_ok(cfg[1], cfg[2])
                 THEN Returned("__init__", <<>>, <<>>)
                 ELSE Raised("__init__", <<>>, "ValueError")

\* the test fixture: laps assigned directly, session a mock
MetricsInit ==
    \E times \in SeqsUpTo(Cells(Durations), MaxLen)
                   \cup {[i \in 1..Len(ExampleDurations) |->
                            <<ExampleDurations[i]>>]} :
        /\ cls = "DriverTimeBasedAnalyzer"
        /\ identifier = VER
        /\ constructed = TRUE
        /\ sessionLaps = DriverLaps(VER, times, Len(times), 0)
        /\ session = "Session"
        /\ laps = Frame(DriverLaps(VER, times, Len(times), 0))
        /\ fetchCount = 0
        /\ loadCalls = 0
        /\ ret = Returned("__init__", <<>>, <<>>)

\* ---------------------------------------------------------------- loading
AlwaysLoad(l) == TRUE

\* `if self.laps is None:` of analyze()
NeedsLoad(l) == l.isNone

\* load_data's selection: pick_teams for TeamAnalyzer, pick_drivers otherwise
load_data_laps(c, table, id) ==
    IF c = "TeamAnalyzer" THEN pick_teams(table, id) ELSE pick_drivers(table, id)

ReuseLoaded(n, s) == IF s = "Session" THEN n ELSE n + 1

\* load_session: one get_session + load on the provider on every call, whatever
\* self.session already holds
load_session_fetches(n, s) == n + 1

LoadData ==
    /\ constructed
    /\ fetchCount < MaxFetch
    /\ fetchCount' = load_session_fetches(fetchCount, session)
    /\ session' = "Session"
    /\ laps' = Frame(load_data_laps(cls, sessionLaps, identifier))
    /\ loadCalls' = loadCalls + 1
    /\ ret' = Returned("load_data", <<>>, <<>>)
    /\ UNCHANGED <<cls, identifier, constructed, sessionLaps>>

\* TimeBasedAnalyzer.analyze, with the lazy load_data() it may perform
Analyze ==
    /\ constructed
    /\ cls \in TimeBased
    /\ NeedsLoad(laps) => fetchCount < MaxFetch
    /\ LET loaded == IF NeedsLoad(laps)
                     THEN Frame(load_data_laps(cls, sessionLaps, identifier))
                     ELSE laps
       IN  /\ laps' = loaded
           /\ ret' = Returned("analyze", <<>>,
                              AnalyzeResult(identifier, loaded.rows))
    /\ fetchCount' = IF NeedsLoad(laps)
                     THEN load_session_fetches(fetchCount, session)
                     ELSE fetchCount
    /\ session' = IF NeedsLoad(laps) THEN "Session" ELSE session
    /\ UNCHANGED <<cls, identifier, constructed, sessionLaps, loadCalls>>

\* DriverAnalyzer.analyze
AnalyzeBasic ==
    /\ constructed
    /\ cls = "DriverAnalyzer"
    /\ NeedsLoad(laps) => fetchCount < MaxFetch
    /\ LET loaded == IF NeedsLoad(laps)
                     THEN Frame(load_data_laps(cls, sessionLaps, identifier))
                     ELSE laps
       IN  /\ laps' = loaded
           /\ ret' = Returned("analyze", <<>>,
                              BasicAnalyzeResult(identifier, loaded.rows))
    /\ fetchCount' = IF NeedsLoad(laps)
                     THEN load_session_fetches(fetchCount, session)
                     ELSE fetchCount
    /\ session' = IF NeedsLoad(laps) THEN "Session" ELSE session
    /\ UNCHANGED <<cls, identifier, constructed, sessionLaps, loadCalls>>

\* --------------------------------------------------------- metric methods
\* a metric method called while self.laps is None subscripts None: TypeError
Metric(op, args, value) ==
    /\ constructed
    /\ cls \in TimeBased
    /\ ret' = IF laps.isNone THEN Raised(op, args, "TypeError")
              ELSE Returned(op, args, value)
    /\ UNCHANGED <<cls, identifier, constructed, sessionLaps, session, laps,
                   fetchCount, loadCalls>>

FilterLapOutliers ==
    /\ ~laps.isNone
    /\ Metric("filter_lap_outliers", get_lap_times_dropna(laps.rows),
              filter_lap_outliers(get_lap_times_dropna(laps.rows)))

GetAverageLapTime ==
    /\ cls \in TimeBased
    /\ Metric("get_average_lap_time", <<>>, get_average_lap_time(laps.rows))

CalculateLapTimeVariance ==
    /\ cls \in TimeBased
    /\ Metric("calculate_lap_time_variance", <<>>,
              calculate_lap_time_variance(laps.rows))

PercentileArgs == {<<25, 50, 75>>, <<50>>}

\* np.percentile of an empty list gives NaN or raises IndexError, by numpy version
CalculateLapTimesPercentile ==
    \E percentile \in PercentileArgs, emptyRaises \in BOOLEAN :
        /\ constructed
        /\ cls \in TimeBased
        /\ ret' = IF laps.isNone
                  THEN Raised("calculate_lap_times_percentile", percentile,
                              "TypeError")
                  ELSE IF get_lap_times_dropna(laps.rows) = <<>>
                  THEN IF emptyRaises
                       THEN Raised("calculate_lap_times_percentile", percentile,
                                   "IndexError")
                       ELSE Returned("calculate_lap_times_percentile", percentile,
                                     [p \in Range(percentile) |-> NaN])
                  ELSE Returned("calculate_lap_times_percentile", percentile,
                                calculate_lap_times_percentile(laps.rows,
                                                               percentile))
        /\ UNCHANGED <<cls, identifier, constructed, sessionLaps, session, laps,
                       fetchCount, loadCalls>>

\* self.laps[['LapNumber', 'LapTimes']] raises KeyError when a column is missing
LapTimeProgression ==
    /\ constructed
    /\ cls \in TimeBased
    /\ ret' = IF laps.isNone
              THEN Raised("lap_time_progression", <<>>, "TypeError")
              ELSE IF ~(ProgressionColumns \subseteq Columns)
              THEN Raised("lap_time_progression", <<>>, "KeyError")
              ELSE Returned("lap_time_progression", <<>>,
                            progression_frame(laps.rows))
    /\ UNCHANGED <<cls, identifier, constructed, sessionLaps, session, laps,
                   fetchCount, loadCalls>>

\* ------------------------------------------------------------- comparison
Others == {<<>>, VER, HAM}
StintArgs == 0..2

\* DriverTimeBasedAnalyzer.compare_lap_times; TeamAnalyzer defines none (it
\* inherits the abstract method of TimeBasedAnalyzer)
CompareLapTimes ==
    \E other_driver \in Others, stint \in StintArgs :
        /\ constructed
        /\ cls = "DriverTimeBasedAnalyzer"
        /\ IF other_driver # <<>> /\ session = "None"
           THEN /\ ret' = Raised("compare_lap_times", <<other_driver, stint>>,
                                 "AttributeError")
                /\ laps' = laps
           ELSE IF laps.isNone
           THEN /\ ret' = Raised("compare_lap_times", <<other_driver, stint>>,
                                 "TypeError")
                /\ laps' = laps
           ELSE LET other_driver_laps ==
                        IF other_driver # <<>>
                        THEN pick_drivers(sessionLaps, other_driver)
                        ELSE laps.rows
                    mine == restrict_stint(laps.rows, stint)
                    theirs == restrict_stint(other_driver_laps, stint)
                IN  /\ laps' = Frame(mine)
                    /\ ret' = Returned("compare_lap_times",
                                       <<other_driver, stint>>,
                                       comparison_frame(mine, theirs))
        /\ UNCHANGED <<cls, identifier, constructed, sessionLaps, session,
                       fetchCount, loadCalls>>

\* ---------------------------------------------------------- specifications
Next ==
    \/ LoadData
    \/ Analyze
    \/ AnalyzeBasic
    \/ FilterLapOutliers
    \/ GetAverageLapTime
    \/ CalculateLapTimeVariance
    \/ CalculateLapTimesPercentile
    \/ LapTimeProgression
    \/ CompareLapTimes

Spec == Init /\ [][Next]_vars

MetricsNext ==
    \/ Analyze
    \/ FilterLapOutliers
    \/ GetAverageLapTime
    \/ CalculateLapTimeVariance
    \/ CalculateLapTimesPercentile
    \/ LapTimeProgression

MetricsSpec == MetricsInit /\ [][MetricsNext]_vars

\* ================================================================ claims
FloatEq(x, y) ==
    IF x = NaN \/ y = NaN THEN x = y ELSE x[1] * y[2] = y[1] * x[2]

\* the non-null durations of a LapSet, in seconds, in row order
CleanDurations(rows) ==
    LET kept == SelectSeq(rows, LAMBDA r : r.LapTime # <<>>)
    IN  [i \in 1..Len(kept) |-> kept[i].LapTime[1]]

\* |v - m| <= 1.5 * s for the median m and the population standard deviation s
\* of xs: with n = Len(xs), (n * |2v - 2m|)^2 <= 9 * (n * Sum x^2 - (Sum x)^2)
WithinThreshold(v, xs) ==
    LET n == Len(xs)
        dev == n * Abs(2 * v - Median2(xs))
    IN  dev * dev <= 9 * (n * SumSq(xs) - Sum(xs) * Sum(xs))

ExpectedFiltered(xs) == SelectSeq(xs, LAMBDA v : WithinThreshold(v, xs))

AllIdentical(xs) == \A i, j \in 1..Len(xs) : xs[i] = xs[j]

\* the rows of the session that match the analyzer's identifier
MatchingRows ==
    IF cls = "TeamAnalyzer"
    THEN SelectSeq(sessionLaps, LAMBDA r : r.Team = identifier)
    ELSE SelectSeq(sessionLaps, LAMBDA r : r.Driver = identifier)

\* C1: filter_lap_outliers returns, in input order, exactly the values v with
\* |v - m| <= 1.5 * s (m the median, s the population standard deviation of the
\* whole input): empty input gives empty output, an all-identical input comes
\* back unchanged, and [90, 85, 88, 95, 120, 87] loses only 120.
C1_FilterKeepsWithinThreshold ==
    ret.op = "filter_lap_outliers" =>
        /\ ret.raised = "None"
        /\ ret.value = ExpectedFiltered(ret.args)
        /\ (ret.args = <<>> => ret.value = <<>>)
        /\ (AllIdentical(ret.args) => ret.value = ret.args)
        /\ (ret.args = ExampleDurations => ret.value = <<90, 85, 88, 95, 87>>)

C1_Witness ==
    /\ ret.op = "filter_lap_outliers"
    /\ ret.args = ExampleDurations
    /\ Len(ret.value) = 5

\* C2: with at least one non-null duration, get_average_lap_time returns the
\* median (not the mean) of the outlier-filtered non-null durations; the
\* durations [90, 85, 88, 95, 120, 87] give 88.0.
C2_AverageIsMedianOfFiltered ==
    (ret.op = "get_average_lap_time" /\ CleanDurations(laps.rows) # <<>>) =>
        /\ ret.raised = "None"
        /\ ret.value # NaN
        /\ FloatEq(ret.value,
                   <<Median2(ExpectedFiltered(CleanDurations(laps.rows))), 2>>)
        /\ (CleanDurations(laps.rows) = ExampleDurations
               => FloatEq(ret.value, Float(88)))

C2_Witness ==
    /\ ret.op = "get_average_lap_time"
    /\ CleanDurations(laps.rows) = ExampleDurations
    /\ FloatEq(ret.value, Float(88))
    /\ ~FloatEq(ret.value, MeanOf(ExpectedFiltered(ExampleDurations)))

\* C3: the fastest_lap of analyze() is the minimum duration of the unfiltered
\* LapSet, also when the Outlier Filter removes that minimum from the values
\* used for average_lap_time and lap_time_variance.
C3_FastestLapIsUnfilteredMinimum ==
    (ret.op = "analyze" /\ ret.raised = "None" /\ cls \in TimeBased
       /\ CleanDurations(laps.rows) # <<>>) =>
        LET all == Range(CleanDurations(laps.rows))
        IN  /\ ret.value.fastest_lap # NaN
            /\ ret.value.fastest_lap[2] = 1
            /\ ret.value.fastest_lap[1] \in all
            /\ \A v \in all : ret.value.fastest_lap[1] <= v

C3_Witness ==
    /\ ret.op = "analyze"
    /\ cls \in TimeBased
    /\ CleanDurations(laps.rows) # <<>>
    /\ ret.value.fastest_lap = Float(50)
    /\ 50 \notin Range(ExpectedFiltered(CleanDurations(laps.rows)))
    /\ FloatEq(ret.value.average_lap_time, Float(88))

\* C4: analyze() on an analyzer whose LapSet is unloaded loads first (one fetch
\* from the Session Provider, LapSet = the session rows matching the
\* identifier); analyze() on a loaded analyzer loads nothing; so as long as only
\* analyze() causes loads, the provider is fetched exactly once.
C4_LazyLoadOnce ==
    /\ [][ret'.op = "analyze" =>
            IF laps.isNone
            THEN /\ fetchCount' = fetchCount + 1
                 /\ laps' = [isNone |-> FALSE, rows |-> MatchingRows]
            ELSE /\ fetchCount' = fetchCount
                 /\ laps' = laps]_vars
    /\ [](ret.op = "analyze" => ~laps.isNone /\ session = "Session")
    /\ []((ret.op = "analyze" /\ loadCalls = 0) => fetchCount = 1)
    /\ [](loadCalls = 0 => fetchCount <= 1)

C4_Witness ==
    /\ ret.op = "analyze"
    /\ loadCalls = 0
    /\ fetchCount = 1
    /\ ~laps.isNone
    /\ laps.rows = MatchingRows
    /\ laps.rows # <<>>

\* C5: with an identifier that is not exactly 3 alphabetic characters, load()
\* fails with InvalidIdentifier and the Session Provider is never called.
C5_InvalidIdentifierNeverFetches ==
    ~validate_driver_code(identifier) =>
        /\ fetchCount = 0
        /\ (ret.op = "load_data" => ret.raised = "InvalidIdentifier")

LapNumbersOf(rows) == {rows[k].LapNumber : k \in 1..Len(rows)}

RowOfLap(rows, n) == rows[CHOOSE k \in 1..Len(rows) : rows[k].LapNumber = n]

\* the other entity's LapSet of a compare_lap_times(other_driver, stint) that
\* has returned, restricted to the stint
OtherRestricted(other_driver, stint) ==
    IF other_driver = <<>> THEN laps.rows
    ELSE SelectSeq(sessionLaps,
                   LAMBDA r : r.Driver = other_driver /\ r.Stint = stint)

\* C6: compare_lap_times with a stint returns exactly one row per lap number
\* present in both stint-restricted LapSets, ascending by lap number, with the
\* two entities' durations of that lap and difference = time_a - time_b.
\* (Stated for a valid identifier and two restricted LapSets that share a lap.)
C6_CompareIsInnerJoinByLapNumber ==
    (ret.op = "compare_lap_times" /\ ret.raised = "None" /\ ret.args[2] # 0
       /\ validate_driver_code(identifier)
       /\ LapNumbersOf(laps.rows)
            \cap LapNumbersOf(OtherRestricted(ret.args[1], ret.args[2])) # {}) =>
        LET theirs == OtherRestricted(ret.args[1], ret.args[2])
            common == LapNumbersOf(laps.rows) \cap LapNumbersOf(theirs)
            out == ret.value
        IN  /\ Len(out) = Cardinality(common)
            /\ \A k \in 1..Len(out) :
                 /\ out[k].LapNumber # NaN
                 /\ out[k].LapNumber[1] \in common
                 /\ out[k].Driver1_LapTime =
                      total_seconds(RowOfLap(laps.rows, out[k].LapNumber[1]).LapTime)
                 /\ out[k].Driver2_LapTime =
                      total_seconds(RowOfLap(theirs, out[k].LapNumber[1]).LapTime)
                 /\ out[k].LapTimeDifference =
                      Sub(out[k].Driver1_LapTime, out[k].Driver2_LapTime)
            /\ \A j, k \in 1..Len(out) :
                 j < k => out[j].LapNumber[1] < out[k].LapNumber[1]

\* C7: analyze() on a LapSet that is empty or has no non-null duration does not
\* raise and reports NaN for average_lap_time, fastest_lap and
\* lap_time_variance.
C7_AnalyzeTotalOnNoData ==
    (ret.op = "analyze" /\ cls \in TimeBased
       /\ CleanDurations(laps.rows) = <<>>) =>
        /\ ret.raised = "None"
        /\ ret.value.average_lap_time = NaN
        /\ ret.value.fastest_lap = NaN
        /\ ret.value.lap_time_variance = NaN

C7_Witness ==
    /\ ret.op = "analyze"
    /\ cls \in TimeBased
    /\ laps.rows # <<>>
    /\ CleanDurations(laps.rows) = <<>>
    /\ ret.raised = "None"
    /\ ret.value.fastest_lap = NaN

\* C8 as stated: load() on an analyzer whose session is already loaded reuses
\* the session (no further get_session/load on the provider) and leaves the
\* LapSet of the first load.  (Stated for a valid identifier with laps.)
C8_LoadReusesLoadedSession ==
    [][(ret'.op = "load_data" /\ session = "Session"
          /\ validate_driver_code(identifier) /\ MatchingRows # <<>>) =>
          /\ fetchCount' = fetchCount
          /\ laps'.rows = MatchingRows]_vars

\* C8 amended: every load() fetches the session from the provider again (one
\* more get_session/load per call, loaded before or not), and after every
\* load() the LapSet is the session rows matching the identifier, so a second
\* load() gives the LapSet of the first.
C8_LoadRefetchesSameLapSet ==
    /\ [][ret'.op = "load_data" =>
            /\ fetchCount' = fetchCount + 1
            /\ laps' = [isNone |-> FALSE, rows |-> MatchingRows]
            /\ session' = "Session"]_vars
    /\ [](ret.op = "load_data" => laps.rows = MatchingRows)

C8_Witness ==
    /\ ret.op = "load_data"
    /\ loadCalls = 2
    /\ fetchCount = 2
    /\ laps.rows = MatchingRows
    /\ laps.rows # <<>>

\* C9: lap_time_progression returns one row per lap of the LapSet, ascending by
\* lap number, the first TimeChange being NaN and every later one the duration
\* minus the duration of the preceding row.  (Stated for a valid identifier
\* and a non-empty LapSet.)
C9_ProgressionOneRowPerLap ==
    (ret.op = "lap_time_progression" /\ ~laps.isNone
       /\ validate_driver_code(identifier) /\ laps.rows # <<>>) =>
        /\ ret.raised = "None"
        /\ Len(ret.value) = Len(laps.rows)
        /\ \A k \in 1..Len(ret.value) :
             /\ k > 1 => ret.value[k - 1].LapNumber <= ret.value[k].LapNumber
             /\ ret.value[k].TimeChange =
                  IF k = 1 THEN NaN
                  ELSE Sub(ret.value[k].LapTimeSeconds,
                           ret.value[k - 1].LapTimeSeconds)

ReadOnlyOps ==
    {"analyze", "get_average_lap_time", "calculate_lap_time_variance",
     "calculate_lap_times_percentile", "lap_time_progression",
     "filter_lap_outliers"}

====
